---- MODULE Spec2Model ----
(***************************************************************************)
(* Model of src/lib/firestore.ts: the lazily created Firestore client, the *)
(* two collections (documents, document_chunks), the ingestion calls       *)
(* getDocumentByHash / saveDocumentMetadata / saveChunks and the in-memory *)
(* cosine-similarity search searchSimilarChunks.                           *)
(*                                                                         *)
(* Numbers.  A JavaScript number (an IEEE-754 double) is modelled as       *)
(* [nan, inf, v, e]: NaN, an infinity of sign v, or the value v * 2^(600e) *)
(* with v a small integer and e in -1..1.  At these magnitudes sums and    *)
(* products of doubles are exact but for three effects, which are kept: a  *)
(* product of two values of scale 1 overflows to Infinity, a product of    *)
(* two values of scale -1 underflows to 0, and a sum of two values of      *)
(* different scale is the one of larger scale.  Stored embeddings and      *)
(* queries are integers (scale 0).  A cosine score                         *)
(* dot / (sqrt(normA) * sqrt(normB)) is kept as [nan, inf, num, den,       *)
(* scale] meaning num / sqrt(den) * 2^(300 scale); the rounding of square  *)
(* root and division is not modelled, and two scores are compared exactly  *)
(* through their signed squares.                                           *)
(***************************************************************************)
EXTENDS Integers, Sequences, FiniteSets, TLC

\* ------------------------------------------------------------------ bounds
\* Number of concurrent ingestion callers.
NumIngest == 2
\* Largest limit (topK) argument tried, next to -1, 0 and 1.
MaxLimit == 2
\* Longest vector and largest component magnitude tried on cosineSimilarity alone.
MaxDim == 2
MaxVal == 1
\* Most records in the registry a lookup on its own is tried against.
MaxDocs == 3

\* --------------------------------------------------------------- constants
CHUNKS_COLLECTION == "document_chunks"
DOCUMENTS_COLLECTION == "documents"

Min(a, b) == IF a < b THEN a ELSE b
Max(a, b) == IF a > b THEN a ELSE b

\* ----------------------------------------------------- JavaScript numbers
NaN == [nan |-> TRUE, inf |-> FALSE, v |-> 0, e |-> 0]
Infinity(sign) == [nan |-> FALSE, inf |-> TRUE, v |-> sign, e |-> 0]

\* The double v * 2^(600e); zero has one representation.
Scaled(v, e) ==
    IF v = 0 THEN [nan |-> FALSE, inf |-> FALSE, v |-> 0, e |-> 0]
    ELSE [nan |-> FALSE, inf |-> FALSE, v |-> v, e |-> e]
Num(x) == Scaled(x, 0)

Sign(n) == IF n < 0 THEN -1 ELSE IF n > 0 THEN 1 ELSE 0

\* An array of integers as the array of numbers of scale e.
Numbers(vec, e) == [i \in 1..Len(vec) |-> Scaled(vec[i], e)]

\* vec[i] for a 0-based index i of the loop: reading past the end of an array
\* yields undefined, and undefined in a product is NaN.
Elem(vec, i) == IF i + 1 \in 1..Len(vec) THEN vec[i + 1] ELSE NaN

\* a * b: Infinity * 0 is NaN; 2^1200 is beyond the largest double and
\* 2^-1200 below the smallest.
Times(a, b) ==
    IF a.nan \/ b.nan THEN NaN
    ELSE IF a.v * b.v = 0 THEN (IF a.inf \/ b.inf THEN NaN ELSE Num(0))
    ELSE IF a.inf \/ b.inf THEN Infinity(Sign(a.v * b.v))
    ELSE IF a.e + b.e >= 2 THEN Infinity(Sign(a.v * b.v))
    ELSE IF a.e + b.e <= -2 THEN Num(0)
    ELSE Scaled(a.v * b.v, a.e + b.e)

\* a + b: Infinity - Infinity is NaN; the smaller of two scales is rounded away.
Plus(a, b) ==
    IF a.nan \/ b.nan THEN NaN
    ELSE IF a.inf /\ b.inf THEN (IF a.v = b.v THEN a ELSE NaN)
    ELSE IF a.inf THEN a
    ELSE IF b.inf THEN b
    ELSE IF a.v = 0 THEN b
    ELSE IF b.v = 0 THEN a
    ELSE IF a.e > b.e THEN a
    ELSE IF b.e > a.e THEN b
    ELSE Scaled(a.v + b.v, a.e)

\* x === 0 (false for NaN)
IsZero(x) == ~x.nan /\ ~x.inf /\ x.v = 0

\* ------------------------------------------------------------------ scores
NaNScore == [nan |-> TRUE, inf |-> FALSE, num |-> 0, den |-> 1, scale |-> 0]
ZeroScore == [nan |-> FALSE, inf |-> FALSE, num |-> 0, den |-> 1, scale |-> 0]
InfinityScore(sign) ==
    [nan |-> FALSE, inf |-> TRUE, num |-> sign, den |-> 1, scale |-> 0]

\* dotProduct / (Math.sqrt(normA) * Math.sqrt(normB)); NaN when any operand is
\* NaN and for Infinity / Infinity, 0 for a finite value over Infinity.  Only
\* reached with normA and normB other than 0 (sums of squares: positive).
Quotient(dot, normA, normB) ==
    IF dot.nan \/ normA.nan \/ normB.nan THEN NaNScore
    ELSE IF normA.inf \/ normB.inf
         THEN (IF dot.inf THEN NaNScore ELSE ZeroScore)
    ELSE IF dot.inf THEN InfinityScore(dot.v)
    ELSE IF dot.v = 0 THEN ZeroScore
    ELSE LET scale == 2 * dot.e - normA.e - normB.e
         IN IF scale >= 4 THEN InfinityScore(Sign(dot.v))
            ELSE IF scale <= -4 THEN ZeroScore
            ELSE [nan |-> FALSE, inf |-> FALSE, num |-> dot.v,
                  den |-> normA.v * normB.v, scale |-> scale]

\* The three accumulators after the loop `for (i = 0; i < vecA.length; i++)`.
CosineLoop(vecA, vecB) ==
    LET acc[i \in 0..Len(vecA)] ==
            IF i = 0
            THEN [dotProduct |-> Num(0), normA |-> Num(0), normB |-> Num(0)]
            ELSE [dotProduct |-> Plus(acc[i - 1].dotProduct,
                                      Times(Elem(vecA, i - 1), Elem(vecB, i - 1))),
                  normA |-> Plus(acc[i - 1].normA,
                                 Times(Elem(vecA, i - 1), Elem(vecA, i - 1))),
                  normB |-> Plus(acc[i - 1].normB,
                                 Times(Elem(vecB, i - 1), Elem(vecB, i - 1)))]
    IN acc[Len(vecA)]

\* vecA and vecB are arrays of numbers.
cosineSimilarity(vecA, vecB) ==
    LET r == CosineLoop(vecA, vecB)
    IN IF IsZero(r.normA) \/ IsZero(r.normB)
       THEN ZeroScore
       ELSE Quotient(r.dotProduct, r.normA, r.normB)

\* Signed square of an integer: orders num / sqrt(den) without square roots.
SignedSquare(n) == IF n < 0 THEN -(n * n) ELSE n * n

\* x < y for two scores that are numbers.
ScoreLess(x, y) ==
    IF x.inf \/ y.inf
    THEN \/ x.inf /\ x.num < 0 /\ ~(y.inf /\ y.num < 0)
         \/ y.inf /\ y.num > 0 /\ ~(x.inf /\ x.num > 0)
    ELSE IF Sign(x.num) # Sign(y.num) THEN Sign(x.num) < Sign(y.num)
    ELSE IF x.scale # y.scale
         THEN (IF x.num > 0 THEN x.scale < y.scale ELSE x.scale > y.scale)
    ELSE SignedSquare(x.num) * y.den < SignedSquare(y.num) * x.den

\* The comparator (a, b) => b.score - a.score as Array.prototype.sort reads it:
\* negative when a goes first, positive when b goes first, and a NaN result is
\* taken as 0.
CompareFn(a, b) ==
    IF a.score.nan \/ b.score.nan THEN 0
    ELSE IF ScoreLess(b.score, a.score) THEN -1
    ELSE IF ScoreLess(a.score, b.score) THEN 1
    ELSE 0

\* -------------------------------------------------------------------- sort
\* All orderings of a finite set, as sequences.
RECURSIVE OrderingsOf(_)
OrderingsOf(S) ==
    IF S = {} THEN {<<>>}
    ELSE UNION {{<<x>> \o p : p \in OrderingsOf(S \ {x})} : x \in S}

\* All orderings of the elements of a sequence without repeated elements.
Orderings(seq) == OrderingsOf({seq[i] : i \in 1..Len(seq)})

\* ECMAScript's "consistent comparator" over the values being sorted.  When it
\* fails (a NaN score next to two different numeric scores) the sort order is
\* implementation-defined.
ConsistentComparator(seq) ==
    LET S == {seq[i] : i \in 1..Len(seq)}
    IN \A a, b, c \in S :
          /\ (CompareFn(a, b) = 0 /\ CompareFn(b, c) = 0) => CompareFn(a, c) = 0
          /\ (CompareFn(a, b) < 0 /\ CompareFn(b, c) < 0) => CompareFn(a, c) < 0
          /\ (CompareFn(a, b) > 0 /\ CompareFn(b, c) > 0) => CompareFn(a, c) > 0

\* x put into an already sorted sequence, after every element it does not
\* strictly precede (stability).
InsertSorted(sorted, x) ==
    LET before == {i \in 1..Len(sorted) : CompareFn(x, sorted[i]) < 0}
        pos == IF before = {} THEN Len(sorted) + 1
               ELSE CHOOSE i \in before : \A j \in before : i <= j
    IN SubSeq(sorted, 1, pos - 1) \o <<x>> \o SubSeq(sorted, pos, Len(sorted))

RECURSIVE StableSort(_)
StableSort(seq) ==
    IF seq = <<>> THEN <<>>
    ELSE InsertSorted(StableSort(SubSeq(seq, 1, Len(seq) - 1)), seq[Len(seq)])

\* scoredChunks.sort((a, b) => b.score - a.score): the possible results.
SortOutcomes(seq) ==
    IF ConsistentComparator(seq) THEN {StableSort(seq)} ELSE Orderings(seq)

\* Slice with an end index that is one too far.
SliceOneTooMany(seq, limit) ==
    LET final == IF limit < 0 THEN Max(Len(seq) + limit + 1, 0)
                 ELSE Min(limit + 1, Len(seq))
    IN SubSeq(seq, 1, final)

\* seq.slice(0, limit): a negative limit counts from the end.
Slice(seq, limit) ==
    LET final == IF limit < 0 THEN Max(Len(seq) + limit, 0) ELSE Min(limit, Len(seq))
    IN SubSeq(seq, 1, final)

\* ------------------------------------------------------------------ search
\* An optional filename argument: given or omitted.
NoFilename == [given |-> FALSE, name |-> ""]
Filename(f) == [given |-> TRUE, name |-> f]

\* `if (filename)`: JavaScript truthiness of the optional string.
Truthy(filename) == filename.given /\ filename.name # ""

\* queryRef.get(): the documents the chunk query matches, in store order.
QueryChunks(store, filename) ==
    IF Truthy(filename)
    THEN SelectSeq(store, LAMBDA c : c.metadata.filename = filename.name)
    ELSE store

\* allChunks.map(chunk => ({chunk, score: cosineSimilarity(queryEmbedding, chunk.embedding)}))
ScoredChunks(allChunks, queryEmbedding) ==
    [i \in 1..Len(allChunks) |->
        [chunk |-> allChunks[i],
         score |-> cosineSimilarity(Numbers(queryEmbedding, 0),
                                    Numbers(allChunks[i].embedding, 0))]]

\* SearchBody with a check of the embedding lengths that throws.
SearchBodyChecked(allChunks, queryEmbedding, limit) ==
    IF \E i \in 1..Len(allChunks) : Len(allChunks[i].embedding) # Len(queryEmbedding)
    THEN {[kind |-> "throw", value |-> <<>>]}
    ELSE {[kind |-> "return",
           value |-> [i \in 1..Len(Slice(sorted, limit)) |-> Slice(sorted, limit)[i].chunk]] :
             sorted \in SortOutcomes(ScoredChunks(allChunks, queryEmbedding))}

\* Lines 108-126, after the snapshot arrived: score, sort, slice, unwrap.  The
\* set of completions the try block can reach.
SearchBody(allChunks, queryEmbedding, limit) ==
    {[kind |-> "return",
      value |-> [i \in 1..Len(Slice(sorted, limit)) |-> Slice(sorted, limit)[i].chunk]] :
        sorted \in SortOutcomes(ScoredChunks(allChunks, queryEmbedding))}

\* A failed queryRef.get() inside the try block.
QueryFailure == [kind |-> "throw", value |-> <<>>]

\* The body without its try/catch: a throw reaches the caller.
NoCatch(completion) ==
    [kind |-> completion.kind, value |-> completion.value, error |-> FALSE]

\* try { ... } catch (error) { console.error(...); return []; }
TryCatch(completion) ==
    IF completion.kind = "throw"
    THEN [kind |-> "return", value |-> <<>>, error |-> TRUE]
    ELSE [kind |-> "return", value |-> completion.value, error |-> FALSE]

\* ------------------------------------------------------------------ inputs
Ingesters == 1..NumIngest

\* The uploads tried: bytes with a content hash, arriving under a file name.
\* One name carries two different contents, one content arrives under two
\* names, and one upload has the empty name.
Uploads ==
    {[hash |-> "h1", filename |-> "x.pdf"],
     [hash |-> "h2", filename |-> "x.pdf"],
     [hash |-> "h2", filename |-> ""]}
Hashes == {u.hash : u \in Uploads}
Filenames == {u.filename : u \in Uploads}

\* The chunk texts and embeddings the caller derived from the bytes with a
\* given hash (the same bytes give the same chunks).
Content(hash) ==
    IF hash = "h1"
    THEN <<[text |-> "h1-a", embedding |-> <<-1, 1>>],
           [text |-> "h1-b", embedding |-> <<1, 1>>]>>
    ELSE <<[text |-> "h2-a", embedding |-> <<1>>]>>

\* Arguments of searchSimilarChunks.
Queries == {<<>>, <<1>>, <<1, 1>>}
Limits == {-1, 0, 1, MaxLimit}
FilenameArgs == {NoFilename} \cup {Filename(f) : f \in Filenames}

\* Vectors handed to cosineSimilarity on its own: integer components, all
\* taken at one of three scales (times 2^-600, as they are, times 2^600).
Vals == -MaxVal..MaxVal
Vecs == UNION {[1..n -> Vals] : n \in 0..MaxDim}
Scales == {-1, 0, 1}

\* ------------------------------------------------------------------- state
VARIABLES
    firestore,   \* module-level client: 0 is null, n > 0 the n-th instance built
    instances,   \* number of Firestore instances constructed so far
    documents,   \* collection 'documents', in store order
    chunks,      \* collection 'document_chunks', in store order
    ing,         \* per ingestion caller: where it is and what it holds, the
                 \* storage requests its operations sent (`requests`) and the
                 \* operation whose request was rejected (`fault`)
    search,      \* the searchSimilarChunks call in progress or just completed:
                 \* its arguments, the snapshot `allChunks`, the result,
                 \* what it logged (`warned`, `errors`), its reads of the
                 \* collection, whether the read failed and whether it threw
                 \* to its caller
    cos          \* a cosineSimilarity call on its own

vars == <<firestore, instances, documents, chunks, ing, search, cos>>

IdleIngest ==
    [pc |-> "idle", hash |-> "", filename |-> "", found |-> <<>>,
     requests |-> 0, fault |-> "none"]

\* A caller whose ingestion ended: `pc` says how it ended; of its locals only
\* what a later reader of the state needs is kept (the hash of a skipped or
\* half-stored upload, the record a lookup returned).
Ended(how) == [IdleIngest EXCEPT !.pc = how]

\* How an ingestion ends when the awaited request of `op` is rejected.
FailedAt(op) ==
    IF op = "getDocumentByHash" THEN "failedLookup"
    ELSE IF op = "saveDocumentMetadata" THEN "failedMetadata"
    ELSE "failedChunks"

\* A catch clause around the await that turns the rejection into the normal
\* return value: the caller goes on as after a call that succeeded.
RejectedAsNull(c, op) ==
    [c EXCEPT !.pc = IF op = "getDocumentByHash" THEN "absent"
                     ELSE IF op = "saveDocumentMetadata" THEN "registered"
                     ELSE "done",
              !.requests = c.requests + 1,
              !.fault = op]

\* The caller c after the one request `op` awaits was rejected: lines 41-68
\* have no try/catch and no loop, so the rejection leaves the operation as
\* it came and the ingestion ends there.
Rejected(c, op) ==
    [Ended(FailedAt(op)) EXCEPT !.hash = IF op = "saveChunks" THEN c.hash ELSE "",
                                !.requests = c.requests + 1,
                                !.fault = op]

IdleSearch ==
    [pc |-> "idle", queryEmbedding |-> <<>>, limit |-> 0, filename |-> NoFilename,
     allChunks |-> <<>>, result |-> <<>>,
     warned |-> FALSE, errors |-> 0, reads |-> 0, failed |-> FALSE, raised |-> FALSE]

IdleCos ==
    [pc |-> "off", vecA |-> <<>>, scaleA |-> 0, vecB |-> <<>>, scaleB |-> 0,
     out |-> ZeroScore]

Init ==
    /\ firestore = 0
    /\ instances = 0
    /\ documents = <<>>
    /\ chunks = <<>>
    /\ ing = [p \in Ingesters |-> IdleIngest]
    /\ search = IdleSearch
    /\ cos = IdleCos

\* ---------------------------------------------------------------- client
\* A getFirestore that builds a client on every call.
getFirestoreAnew ==
    /\ firestore' = instances + 1
    /\ instances' = instances + 1

\* getFirestore(): build the client when the module variable is null.
getFirestore ==
    IF firestore = 0
    THEN /\ firestore' = instances + 1
         /\ instances' = instances + 1
    ELSE UNCHANGED <<firestore, instances>>

\* --------------------------------------------------------------- ingestion
\* The caller takes up an upload: bytes with hash `hash` named `filename`.
\* It will check the registry first and insert only when the hash is absent.
Ingest(p, hash, filename) ==
    /\ ing[p].pc = "idle"
    /\ ing' = [ing EXCEPT ![p] = [IdleIngest EXCEPT !.pc = "lookup",
                                                     !.hash = hash,
                                                     !.filename = filename]]
    /\ UNCHANGED <<firestore, instances, documents, chunks, search, cos>>

\* The lookup with the wrong field in its equality filter.
WhereFilenameLimit1(docs, hash) ==
    LET hits == SelectSeq(docs, LAMBDA d : d.filename = hash)
    IN SubSeq(hits, 1, Min(1, Len(hits)))

\* The lookup that yields the match stored last.
WhereHashLast(docs, hash) ==
    LET hits == SelectSeq(docs, LAMBDA d : d.hash = hash)
    IN IF hits = <<>> THEN <<>> ELSE <<hits[Len(hits)]>>

\* .where('hash', '==', hash).limit(1).get(): at most the first match.
WhereHashLimit1(docs, hash) ==
    LET hits == SelectSeq(docs, LAMBDA d : d.hash = hash)
    IN SubSeq(hits, 1, Min(1, Len(hits)))

\* getDocumentByHash: <<>> stands for null, <<d>> for the record d.
getDocumentByHash(p) ==
    /\ ing[p].pc = "lookup"
    /\ getFirestore
    /\ LET snapshot == WhereHashLimit1(documents, ing[p].hash)
       IN ing' = [ing EXCEPT ![p] =
                     IF snapshot = <<>>
                     THEN [@ EXCEPT !.pc = "absent", !.requests = @ + 1]
                     ELSE [Ended("skipped") EXCEPT !.hash = ing[p].hash,
                                                   !.found = snapshot,
                                                   !.requests = ing[p].requests + 1]]
    /\ UNCHANGED <<documents, chunks, search, cos>>

\* The query of getDocumentByHash rejects: the call throws.
getDocumentByHashFails(p) ==
    /\ ing[p].pc = "lookup"
    /\ getFirestore
    /\ ing' = [ing EXCEPT ![p] = Rejected(ing[p], "getDocumentByHash")]
    /\ UNCHANGED <<documents, chunks, search, cos>>

\* A write keyed by the file name (doc(filename).set(...)): it replaces the
\* record that carries the name, if there is one.
SetDocument(docs, metadata) ==
    LET record == [hash |-> metadata.hash, filename |-> metadata.filename,
                   persona |-> metadata.persona]
    IN IF \E j \in 1..Len(docs) : docs[j].filename = metadata.filename
       THEN [j \in 1..Len(docs) |->
                IF docs[j].filename = metadata.filename THEN record ELSE docs[j]]
       ELSE Append(docs, record)

\* collection('documents').add({...metadata, created_at}): created_at is the
\* record's place in the collection.
AddDocument(docs, metadata) ==
    Append(docs, [hash |-> metadata.hash, filename |-> metadata.filename,
                  persona |-> metadata.persona])

\* An insert that goes through only while no record has the hash (a
\* transaction, or a document id derived from the hash).
saveDocumentMetadataOnce(p) ==
    /\ ing[p].pc = "absent"
    /\ WhereHashLimit1(documents, ing[p].hash) = <<>>
    /\ getFirestore
    /\ documents' = AddDocument(documents,
                                [hash |-> ing[p].hash, filename |-> ing[p].filename,
                                 persona |-> "technical"])
    /\ ing' = [ing EXCEPT ![p] = [@ EXCEPT !.pc = "registered", !.requests = @ + 1]]
    /\ UNCHANGED <<chunks, search, cos>>

saveDocumentMetadata(p) ==
    /\ ing[p].pc = "absent"
    /\ getFirestore
    /\ documents' = AddDocument(documents,
                                [hash |-> ing[p].hash, filename |-> ing[p].filename,
                                 persona |-> "technical"])
    /\ ing' = [ing EXCEPT ![p] = [@ EXCEPT !.pc = "registered", !.requests = @ + 1]]
    /\ UNCHANGED <<chunks, search, cos>>

saveDocumentMetadataFails(p) ==
    /\ ing[p].pc = "absent"
    /\ getFirestore
    /\ ing' = [ing EXCEPT ![p] = Rejected(ing[p], "saveDocumentMetadata")]
    /\ UNCHANGED <<documents, chunks, search, cos>>

\* Number of saveChunks calls whose batch is in the store.
Commits(store) == Cardinality({store[i].call : i \in 1..Len(store)})

\* The writes saveChunks queues on the batch: one new document reference per
\* chunk.  `call` numbers the saveChunks calls in the order they commit.
Batch(store, p) ==
    LET content == Content(ing[p].hash)
    IN [i \in 1..Len(content) |->
           [id |-> Len(store) + i,
            text |-> content[i].text,
            embedding |-> content[i].embedding,
            metadata |-> [filename |-> ing[p].filename, persona |-> "technical"],
            call |-> Commits(store) + 1]]

\* A commit that applies the first queued write only.
CommitFirstWrite(store, batch) == store \o SubSeq(batch, 1, Min(1, Len(batch)))

\* batch.commit(): all queued writes are applied together.
BatchCommit(store, batch) == store \o batch

saveChunks(p) ==
    /\ ing[p].pc = "registered"
    /\ getFirestore
    /\ chunks' = BatchCommit(chunks, Batch(chunks, p))
    /\ ing' = [ing EXCEPT ![p] = [Ended("done") EXCEPT !.requests = ing[p].requests + 1]]
    /\ UNCHANGED <<documents, search, cos>>

\* A failed commit that is compensated: the records of the upload's hash are
\* deleted before the call throws.
saveChunksFailsUndo(p) ==
    /\ ing[p].pc = "registered"
    /\ getFirestore
    /\ documents' = SelectSeq(documents, LAMBDA d : d.hash # ing[p].hash)
    /\ ing' = [ing EXCEPT ![p] = Rejected(ing[p], "saveChunks")]
    /\ UNCHANGED <<chunks, search, cos>>

\* batch.commit() rejects: nothing is written and the call throws.
saveChunksFails(p) ==
    /\ ing[p].pc = "registered"
    /\ getFirestore
    /\ ing' = [ing EXCEPT ![p] = Rejected(ing[p], "saveChunks")]
    /\ UNCHANGED <<documents, chunks, search, cos>>

\* ------------------------------------------------------------------ search
\* searchSimilarChunks up to `await queryRef.get()`: the client, the query
\* with or without the filename filter, the warning of the unfiltered path.
SearchCall(queryEmbedding, limit, filename) ==
    /\ search.pc = "idle"
    /\ getFirestore
    /\ search' = [IdleSearch EXCEPT !.pc = "pending",
                                    !.queryEmbedding = queryEmbedding,
                                    !.limit = limit,
                                    !.filename = filename,
                                    !.warned = ~Truthy(filename)]
    /\ UNCHANGED <<documents, chunks, ing, cos>>

\* The state of the call once the completion c of the try block went through
\* the catch clause.
Completed(s, c) ==
    [s EXCEPT !.pc = "done",
              !.result = c.value,
              !.errors = s.errors + (IF c.kind = "return" /\ c.error THEN 1 ELSE 0),
              !.raised = (c.kind = "throw")]

\* A search answered from a copy of the collection kept from an earlier read:
\* the collection as it was at some earlier time.
SearchGetStale ==
    /\ search.pc = "pending"
    /\ \E n \in 0..Len(chunks) :
          LET allChunks == QueryChunks(SubSeq(chunks, 1, n), search.filename)
          IN \E c \in SearchBody(allChunks, search.queryEmbedding, search.limit) :
                search' = Completed([search EXCEPT !.allChunks = allChunks,
                                                   !.reads = search.reads + 1],
                                    TryCatch(c))
    /\ UNCHANGED <<firestore, instances, documents, chunks, ing, cos>>

\* The snapshot arrives and the rest of the try block runs.
SearchGet ==
    /\ search.pc = "pending"
    /\ LET allChunks == QueryChunks(chunks, search.filename)
       IN \E c \in SearchBody(allChunks, search.queryEmbedding, search.limit) :
             search' = Completed([search EXCEPT !.allChunks = allChunks,
                                                !.reads = search.reads + 1],
                                 TryCatch(c))
    /\ UNCHANGED <<firestore, instances, documents, chunks, ing, cos>>

\* queryRef.get() rejects.
SearchGetFails ==
    /\ search.pc = "pending"
    /\ search' = Completed([search EXCEPT !.reads = search.reads + 1,
                                          !.failed = TRUE],
                           TryCatch(QueryFailure))
    /\ UNCHANGED <<firestore, instances, documents, chunks, ing, cos>>

\* The caller has taken the result; the next call starts afresh.
SearchReturned ==
    /\ search.pc = "done"
    /\ search' = IdleSearch
    /\ UNCHANGED <<firestore, instances, documents, chunks, ing, cos>>

\* ---------------------------------------------------------- specifications
\* What searchSimilarChunks does once its snapshot arrived runs to completion:
\* no other callback runs before it has returned.
Running == search.pc # "done"

Calls ==
    \/ \E p \in Ingesters : Running /\ getDocumentByHash(p)
    \/ \E p \in Ingesters : Running /\ getDocumentByHashFails(p)
    \/ \E p \in Ingesters : Running /\ saveDocumentMetadata(p)
    \/ \E p \in Ingesters : Running /\ saveDocumentMetadataFails(p)
    \/ \E p \in Ingesters : Running /\ saveChunks(p)
    \/ \E p \in Ingesters : Running /\ saveChunksFails(p)
    \/ \E q \in Queries, k \in Limits, f \in FilenameArgs : SearchCall(q, k, f)
    \/ SearchGet
    \/ SearchGetFails
    \/ SearchReturned

\* Callers ingest concurrently.
Next ==
    \/ \E p \in Ingesters, u \in Uploads : Running /\ Ingest(p, u.hash, u.filename)
    \/ Calls

Spec == Init /\ [][Next]_vars

\* Callers ingest one after the other: an ingestion starts only when no other
\* is between its lookup and its end.
InFlight(p) == ing[p].pc \in {"lookup", "absent", "registered"}

SeqIngest(p, hash, filename) ==
    /\ \A o \in Ingesters : ~InFlight(o)
    /\ Ingest(p, hash, filename)

SeqNext ==
    \/ \E p \in Ingesters, u \in Uploads : Running /\ SeqIngest(p, u.hash, u.filename)
    \/ Calls

SeqSpec == Init /\ [][SeqNext]_vars

\* getDocumentByHash on its own: one caller looks a hash up in a registry that
\* holds any records of the uploads' hashes and names, up to MaxDocs of them.
RegistryRecords ==
    [hash : Hashes, filename : Filenames, persona : {"technical"}]
Registries == UNION {[1..n -> RegistryRecords] : n \in 0..MaxDocs}

LookupInit ==
    /\ firestore = 0
    /\ instances = 0
    /\ documents \in Registries
    /\ chunks = <<>>
    /\ \E h \in Hashes :
          ing = [p \in Ingesters |->
                    IF p = 1 THEN [IdleIngest EXCEPT !.pc = "lookup", !.hash = h]
                    ELSE IdleIngest]
    /\ search = IdleSearch
    /\ cos = IdleCos

LookupNext == \E p \in Ingesters : getDocumentByHash(p)

LookupSpec == LookupInit /\ [][LookupNext]_vars

\* cosineSimilarity on its own: any two vectors within the bounds.
CosInit ==
    /\ firestore = 0
    /\ instances = 0
    /\ documents = <<>>
    /\ chunks = <<>>
    /\ ing = [p \in Ingesters |-> IdleIngest]
    /\ search = IdleSearch
    /\ cos \in [pc : {"ready"}, vecA : Vecs, scaleA : Scales,
                 vecB : Vecs, scaleB : Scales, out : {ZeroScore}]

CosCall ==
    /\ cos.pc = "ready"
    /\ cos' = [cos EXCEPT !.pc = "done",
                          !.out = cosineSimilarity(Numbers(cos.vecA, cos.scaleA),
                                                   Numbers(cos.vecB, cos.scaleB))]
    /\ UNCHANGED <<firestore, instances, documents, chunks, ing, search>>

CosSpec == CosInit /\ [][CosCall]_vars

\* ============================================================== properties
\* A search that has returned after its snapshot arrived.  In such a state
\* `chunks` is still the collection the snapshot was read from.
Answered == search.pc = "done" /\ ~search.failed

\* The same, for a limit that is not negative (what a negative limit does is
\* the matter of C4 alone).
AnsweredTopK == Answered /\ search.limit >= 0

Elems(seq) == {seq[i] : i \in 1..Len(seq)}
NoRepeats(seq) == \A i, j \in 1..Len(seq) : i # j => seq[i] # seq[j]

\* The score the search gave a chunk.
ScoreOf(chunk) ==
    cosineSimilarity(Numbers(search.queryEmbedding, 0), Numbers(chunk.embedding, 0))

\* x >= y as numbers (false when either is NaN).
NotLower(x, y) == ~x.nan /\ ~y.nan /\ ~ScoreLess(x, y)
SameScore(x, y) == NotLower(x, y) /\ NotLower(y, x)

\* Place of a chunk in the snapshot.
PlaceOf(chunk) == CHOOSE i \in 1..Len(search.allChunks) : search.allChunks[i] = chunk

\* Some chunk is stored under the name f.
StoredUnder(f) == \E i \in 1..Len(chunks) : chunks[i].metadata.filename = f

\* ---------------------------------------------------------------------- C1
\* C1: whenever searchSimilarChunks was given a filename string F under which
\* chunks are stored, every chunk of its result has metadata.filename = F.
C1_OnlyChunksOfTheGivenFilename ==
    (AnsweredTopK /\ search.filename.given /\ StoredUnder(search.filename.name))
        => \A i \in 1..Len(search.result) :
              search.result[i].metadata.filename = search.filename.name

\* ---------------------------------------------------------------------- C2
\* The collection without the chunks stored under names other than f.
OnlyFile(store, f) == SelectSeq(store, LAMBDA c : c.metadata.filename = f)

\* C2: the result of a search given the filename F is a result the same search
\* has on the collection that agrees on the chunks of F and holds no chunk of
\* another filename: chunks of other filenames do not influence it.
C2_OtherFilenamesDoNotInfluence ==
    (AnsweredTopK /\ search.filename.given)
        => \E c \in SearchBody(QueryChunks(OnlyFile(chunks, search.filename.name),
                                           search.filename),
                               search.queryEmbedding, search.limit) :
              search.result = c.value

\* ---------------------------------------------------------------------- C3
\* The records of the hash h, the stored chunks cut from its content and the
\* saveChunks calls that stored them.
RecordsOf(h) == {i \in 1..Len(documents) : documents[i].hash = h}
TextsOf(h) == {Content(h)[i].text : i \in 1..Len(Content(h))}
ChunksOf(h) == SelectSeq(chunks, LAMBDA c : c.text \in TextsOf(h))
CallsOf(h) == {c.call : c \in Elems(ChunksOf(h))}

\* An ingestion of h was skipped as a duplicate; one stored the record of h
\* and then failed to store its chunks.
Skipped(h) == \E p \in Ingesters : ing[p].pc = "skipped" /\ ing[p].hash = h
HalfStored(h) == \E p \in Ingesters : ing[p].pc = "failedChunks" /\ ing[p].hash = h

\* C3: when ingestions run one after the other, each looking the hash up first
\* and inserting only on null, no hash ever has a second record or a second set
\* of chunks, a stored set is the content's chunks once each, and after a
\* re-ingestion was skipped there is exactly one record and (unless the first
\* ingestion failed in saveChunks) exactly one set of chunks.
C3_ReingestionAddsNothing ==
    \A h \in Hashes :
        /\ Cardinality(RecordsOf(h)) <= 1
        /\ Cardinality(CallsOf(h)) <= 1
        /\ Len(ChunksOf(h)) \in {0, Len(Content(h))}
        /\ Skipped(h) =>
              /\ Cardinality(RecordsOf(h)) = 1
              /\ ~HalfStored(h) => Len(ChunksOf(h)) = Len(Content(h))

\* A re-ingestion of stored content has been skipped, and the store holds its
\* one record and its one set of chunks.
C3_Witness ==
    \E h \in Hashes :
        /\ Skipped(h)
        /\ Cardinality(RecordsOf(h)) = 1
        /\ Cardinality(CallsOf(h)) = 1
        /\ Len(ChunksOf(h)) = 2

\* ---------------------------------------------------------------------- C4
\* C4 as stated, for every integer limit: a search that read its candidates
\* returns at most `limit` chunks and at most as many as there are candidates,
\* and all candidates, each once, when there are fewer than `limit`.
C4_AtMostLimit ==
    Answered =>
        /\ Len(search.result) <= search.limit
        /\ Len(search.result) <= Len(search.allChunks)
        /\ Len(search.allChunks) < search.limit =>
              /\ Elems(search.result) = Elems(search.allChunks)
              /\ Len(search.result) = Len(search.allChunks)

\* C4 amended: the same for every limit >= 0; a negative limit -m returns the
\* candidates but m of them (none when there are at most m).
C4_AtMostNonNegativeLimit ==
    Answered =>
        /\ Elems(search.result) \subseteq Elems(search.allChunks)
        /\ NoRepeats(search.result)
        /\ search.limit >= 0 =>
              /\ Len(search.result) <= search.limit
              /\ Len(search.result) <= Len(search.allChunks)
              /\ Len(search.allChunks) < search.limit =>
                    /\ Elems(search.result) = Elems(search.allChunks)
                    /\ Len(search.result) = Len(search.allChunks)
        /\ search.limit < 0 =>
              Len(search.result) = Max(Len(search.allChunks) + search.limit, 0)

\* A search with a limit above the number of its candidates returned them all.
C4_Witness ==
    /\ Answered
    /\ search.allChunks # <<>>
    /\ Len(search.allChunks) < search.limit
    /\ Len(search.result) = Len(search.allChunks)

\* ---------------------------------------------------------------------- C5
\* C5: the result is in descending order of score, it holds the `limit`
\* highest-scoring candidates, equal scores keep the order of the snapshot, and
\* the call has only this one result.
C5_DescendingTopKStable ==
    AnsweredTopK =>
        /\ \A i \in 1..(Len(search.result) - 1) :
              NotLower(ScoreOf(search.result[i]), ScoreOf(search.result[i + 1]))
        /\ Elems(search.result) \subseteq Elems(search.allChunks)
        /\ Len(search.result) = Min(search.limit, Len(search.allChunks))
        /\ \A r \in Elems(search.result) :
              \A c \in Elems(search.allChunks) \ Elems(search.result) :
                 NotLower(ScoreOf(r), ScoreOf(c))
        /\ \A i, j \in 1..Len(search.result) :
              (i < j /\ SameScore(ScoreOf(search.result[i]), ScoreOf(search.result[j])))
                 => PlaceOf(search.result[i]) < PlaceOf(search.result[j])
        /\ Cardinality(SearchBody(search.allChunks, search.queryEmbedding,
                                  search.limit)) = 1

\* ---------------------------------------------------------------------- C6
\* C6: searchSimilarChunks never throws to its caller; when the chunk query
\* fails it returns the empty sequence, has logged one error and has read the
\* collection once; and the step that completes a search changes neither
\* collection.
C6_SearchDegradesToEmpty ==
    /\ [](/\ ~search.raised
          /\ (search.pc = "done" /\ search.failed) =>
                /\ search.result = <<>>
                /\ search.errors = 1
                /\ search.reads = 1)
    /\ [][(search.pc = "pending" /\ search'.pc = "done")
             => UNCHANGED <<documents, chunks>>]_vars

\* A search failed on a store that holds chunks in its scope.
C6_Witness ==
    /\ search.pc = "done"
    /\ search.failed
    /\ QueryChunks(chunks, search.filename) # <<>>

\* ---------------------------------------------------------------------- C7
\* Some candidate's embedding differs in length from the query embedding.
Mismatch ==
    \E i \in 1..Len(search.allChunks) :
        Len(search.allChunks[i].embedding) # Len(search.queryEmbedding)

Malformed(chunk) ==
    \/ Len(search.queryEmbedding) = 0
    \/ Len(chunk.embedding) = 0
    \/ Len(chunk.embedding) # Len(search.queryEmbedding)

\* C8: a malformed pair scores 0, and the search goes on: the well-formed
\* candidates are returned in descending order of score.
C8_MalformedPairScoresZero ==
    AnsweredTopK =>
        /\ \A c \in Elems(search.allChunks) : Malformed(c) => ScoreOf(c) = ZeroScore
        /\ Len(search.result) = Len(Slice(search.allChunks, search.limit))
        /\ \A i, j \in 1..Len(search.result) :
              (i < j /\ ~Malformed(search.result[i]) /\ ~Malformed(search.result[j]))
                 => NotLower(ScoreOf(search.result[i]), ScoreOf(search.result[j]))

\* ---------------------------------------------------------------------- C9
\* A vector with components, all of them 0.
AllZero(vec) == Len(vec) > 0 /\ \A i \in 1..Len(vec) : vec[i] = 0

\* C9: cosineSimilarity of two vectors of which one is all-zero is exactly 0.
C9_ZeroVectorScoresZero ==
    (cos.pc = "done" /\ (AllZero(cos.vecA) \/ AllZero(cos.vecB)))
        => cos.out = ZeroScore

\* --------------------------------------------------------------------- C10
\* The chunks of the snapshot that the saveChunks call k stored.
SeenOf(k) == SelectSeq(search.allChunks, LAMBDA c : c.call = k)

\* The texts of a sequence of chunks, in order.
Texts(seq) == [i \in 1..Len(seq) |-> seq[i].text]

\* seq is all the chunks one saveChunks call queued.
WholeBatch(seq) == \E h \in Hashes : Texts(seq) = Texts(Content(h))

\* C10: a search's candidate set holds none or all of the chunks of any one
\* saveChunks call, and a call whose commit failed has stored nothing: the
\* batches in the store are as many as the calls that succeeded.
C10_BatchIsAllOrNothing ==
    /\ Answered =>
          \A k \in 1..NumIngest : SeenOf(k) = <<>> \/ WholeBatch(SeenOf(k))
    /\ \A k \in 1..NumIngest :
          LET stored == SelectSeq(chunks, LAMBDA c : c.call = k)
          IN stored = <<>> \/ WholeBatch(stored)
    /\ Commits(chunks) = Cardinality({p \in Ingesters : ing[p].pc = "done"})

\* A search read the collection between two saveChunks calls: it has both
\* chunks of a committed two-chunk batch among its candidates and none of the
\* call that is still to commit.
C10_Witness ==
    /\ Answered
    /\ \E k \in 1..NumIngest : Len(SeenOf(k)) = 2
    /\ \E p \in Ingesters : ing[p].pc = "registered"

\* --------------------------------------------------------------------- C11
\* C11: when the storage request of getDocumentByHash, saveDocumentMetadata
\* or saveChunks is rejected, the operation throws to its caller (the
\* ingestion ends as failed in that operation; in particular a rejected lookup
\* is never taken as null or as a record), and the step in which the request
\* is rejected sends that one request and changes neither collection.
C11_StorageFaultsPropagate ==
    /\ [](\A p \in Ingesters :
            /\ ing[p].fault # "none" => ing[p].pc = FailedAt(ing[p].fault)
            /\ ing[p].pc \in {"absent", "skipped", "registered", "done"}
                  => ing[p].fault = "none")
    /\ [][\A p \in Ingesters :
             ing'[p].fault # ing[p].fault
                => /\ UNCHANGED <<documents, chunks>>
                   /\ ing'[p].requests = ing[p].requests + 1]_vars

\* One ingestion failed in its lookup and another in saveChunks, on a store
\* that holds a record.
C11_Witness ==
    \E p, q \in Ingesters :
        /\ ing[p].fault = "getDocumentByHash"
        /\ ing[q].fault = "saveChunks"
        /\ documents # <<>>

\* --------------------------------------------------------------------- C12
\* The records that carry the filename f.
RecordsNamed(f) == {j \in 1..Len(documents) : documents[j].filename = f}

\* C12: in every reachable state, for every stored chunk there is exactly one
\* record whose filename equals the chunk's metadata.filename.
C12_OneRecordPerChunkFilename ==
    \A i \in 1..Len(chunks) :
        Cardinality(RecordsNamed(chunks[i].metadata.filename)) = 1

\* --------------------------------------------------------------------- C13
\* C13: a search called without a filename logs the global-scan warning and
\* has every stored chunk as its candidates; a search called with a filename
\* does not take that path: it logs no warning and its candidates are the
\* chunks stored under that filename.
C13_UnscopedOnlyWithoutFilename ==
    /\ search.pc # "idle" => (search.warned <=> ~search.filename.given)
    /\ Answered =>
          search.allChunks = IF search.filename.given
                             THEN OnlyFile(chunks, search.filename.name)
                             ELSE chunks

\* --------------------------------------------------------------------- C14
\* s is the beginning of t: what s holds is in t, in place and unchanged.
IsPrefix(s, t) == Len(s) <= Len(t) /\ SubSeq(t, 1, Len(s)) = s

\* C14: every step keeps what both collections hold, in place and with every
\* field as it was (new records and chunks come after); a step of
\* getDocumentByHash or of searchSimilarChunks changes neither collection, a
\* step of saveDocumentMetadata leaves the chunks and a step of saveChunks
\* leaves the documents as they are.
C14_AppendOnly ==
    [][/\ IsPrefix(documents, documents')
       /\ IsPrefix(chunks, chunks')
       /\ search' # search => UNCHANGED <<documents, chunks>>
       /\ \A p \in Ingesters :
             ing'[p] # ing[p] =>
                /\ ing[p].pc = "lookup" => UNCHANGED <<documents, chunks>>
                /\ ing[p].pc = "absent" => chunks' = chunks
                /\ ing[p].pc = "registered" => documents' = documents]_vars

\* Two ingestions have stored their records and chunks and a search has
\* returned chunks.
C14_Witness ==
    /\ Len(documents) = 2
    /\ Commits(chunks) = 2
    /\ Answered
    /\ search.result # <<>>

\* --------------------------------------------------------------------- C15
\* The first place in the collection of a record with the hash h.
FirstOf(h) == CHOOSE i \in RecordsOf(h) : \A j \in RecordsOf(h) : i <= j

\* C15: a getDocumentByHash(h) that returns yields a record exactly when some
\* stored record has the hash h; the record it yields has the hash h and is
\* the first such record of the collection; it yields null when none has.
C15_LookupByExactHash ==
    [][\A p \in Ingesters :
          (ing[p].pc = "lookup" /\ ing'[p].pc \in {"absent", "skipped"})
             => /\ ing'[p].pc = "skipped" <=> RecordsOf(ing[p].hash) # {}
                /\ ing'[p].pc = "absent" => ing'[p].found = <<>>
                /\ ing'[p].pc = "skipped" =>
                      /\ ing'[p].found = <<documents[FirstOf(ing[p].hash)]>>
                      /\ ing'[p].found[1].hash = ing[p].hash]_vars

\* A lookup was answered from a registry that holds a record of another hash
\* first and then two different records of the hash looked up.
C15_Witness ==
    \E p \in Ingesters :
        /\ ing[p].pc = "skipped"
        /\ documents[1].hash # ing[p].hash
        /\ \E i, j \in RecordsOf(ing[p].hash) : documents[i] # documents[j]

\* --------------------------------------------------------------------- C16
\* A vector with a component other than 0.
NonZero(vec) == \E i \in 1..Len(vec) : vec[i] # 0

\* The score num / sqrt(den) is the number 1.
IsOne(score) ==
    /\ ~score.nan
    /\ ~score.inf
    /\ score.scale = 0
    /\ score.num > 0
    /\ score.num * score.num = score.den

\* C16: cosineSimilarity(v, v) is 1 for every vector v that is not zero.
C16_SelfSimilarityIsOne ==
    (/\ cos.pc = "done"
     /\ cos.vecA = cos.vecB
     /\ cos.scaleA = cos.scaleB
     /\ NonZero(cos.vecA))
        => IsOne(cos.out)

\* --------------------------------------------------------------------- C17
\* The callers whose saveDocumentMetadata went through.
Inserted == {p \in Ingesters : ing[p].pc \in {"registered", "done", "failedChunks"}}

\* C17: nothing in the module keeps two callers apart on a hash: a caller
\* whose lookup returned null can insert its record, and one that inserted
\* can store its chunks, whatever the registry holds by then and wherever the
\* other callers are; each insert adds a record and each commit a chunk set.
\* (That two records and two chunk sets of one hash are reached is C17_Witness.)
C17_NoMutualExclusionOnHash ==
    /\ \A p \in Ingesters : ing[p].pc = "absent" => ENABLED saveDocumentMetadata(p)
    /\ \A p \in Ingesters : ing[p].pc = "registered" => ENABLED saveChunks(p)
    /\ Len(documents) = Cardinality(Inserted)
    /\ \A h \in Hashes : Len(ChunksOf(h)) = Cardinality(CallsOf(h)) * Len(Content(h))

\* Two callers ingested the same content at once: the registry holds two
\* records of its hash and the chunk collection two copies of its chunks.
C17_Witness ==
    \E h \in Hashes :
        /\ Cardinality(RecordsOf(h)) = 2
        /\ Cardinality(CallsOf(h)) = 2
        /\ Len(ChunksOf(h)) = 2 * Len(Content(h))

\* --------------------------------------------------------------------- C18
\* C18: the record saveDocumentMetadata stored stays in the registry while its
\* ingestion has not stored the chunks, be it that the caller is (or stops)
\* between the two calls or that saveChunks failed: nothing removes it.
\* (That such a record is reached with no chunk under its filename, and with
\* no ingestion left that could add one, is C18_Witness.)
C18_RecordStaysWithoutChunks ==
    \A p \in Ingesters :
        ing[p].pc \in {"registered", "failedChunks"} => RecordsOf(ing[p].hash) # {}

\* saveChunks failed after the record was stored: the record is there, no
\* chunk is stored under its filename, and no ingestion is in progress.
C18_Witness ==
    \E p \in Ingesters :
        /\ ing[p].pc = "failedChunks"
        /\ \E i \in RecordsOf(ing[p].hash) : ~StoredUnder(documents[i].filename)
        /\ \A q \in Ingesters : ~InFlight(q)

\* --------------------------------------------------------------------- C19
\* The filenames of the records of the hash h.
NamesOf(h) == {documents[i].filename : i \in RecordsOf(h)}

\* C19: with ingestions one after the other, once an ingestion of the hash H
\* stored the record and not the chunks, the chunks of H are never stored, and
\* every search scoped to the record's filename returns the empty sequence
\* (stated for a non-empty filename and a limit that is not negative; the
\* empty filename is the matter of C1, the negative limit of C4).
C19_RegisteredWithoutChunksStaysEmpty ==
    \A h \in Hashes :
        HalfStored(h) =>
            /\ ChunksOf(h) = <<>>
            /\ (/\ AnsweredTopK
                /\ Truthy(search.filename)
                /\ search.filename.name \in NamesOf(h))
                  => search.result = <<>>

\* --------------------------------------------------------------------- C20
\* The step is a call of saveChunks, getDocumentByHash, saveDocumentMetadata
\* (a caller's request count moves) or of searchSimilarChunks.
StorageCall ==
    \/ \E p \in Ingesters : ing'[p].requests # ing[p].requests
    \/ search.pc = "idle" /\ search'.pc = "pending"

\* C20: at most one client is ever built and the module variable holds it;
\* the variable is null exactly until the first storage-using call, that call
\* sets it, no other step does, and once set it is never reset or replaced.
C20_ClientCreatedOnce ==
    /\ [](/\ instances <= 1
          /\ firestore = instances
          /\ firestore = 0 =>
                /\ \A p \in Ingesters : ing[p].requests = 0
                /\ search.pc = "idle")
    /\ [][/\ firestore # 0 => UNCHANGED <<firestore, instances>>
          /\ firestore = 0 => firestore' = (IF StorageCall THEN 1 ELSE 0)]_vars

\* All four operations have used the client: an ingestion went through its
\* three calls and a search was answered, interleaved with another ingestion.
C20_Witness ==
    /\ firestore = 1
    /\ Answered
    /\ \E p, q \in Ingesters : ing[p].pc = "done" /\ ing[q].pc = "registered"

\* --------------------------------------------------------------------- C21
\* The stored chunk c is in the scope of the search: no filename was given, or
\* it is stored under the filename given.
InScope(c) == ~search.filename.given \/ c.metadata.filename = search.filename.name

\* C21: a call starts with nothing kept from an earlier call and has read
\* nothing yet; a call that returned has read the collection exactly once; its
\* candidates are what the query gives on the collection as it is at that
\* read, so every chunk committed before it that is in scope is a candidate;
\* and its result is a result of scoring, sorting and slicing these candidates
\* with its own arguments.
C21_ResultFromOwnReadOnly ==
    /\ search.pc = "pending" =>
          /\ search.reads = 0
          /\ search.allChunks = <<>>
          /\ search.result = <<>>
    /\ search.pc = "done" => search.reads = 1
    /\ Answered =>
          /\ search.allChunks = QueryChunks(chunks, search.filename)
          /\ \A i \in 1..Len(chunks) :
                InScope(chunks[i]) => chunks[i] \in Elems(search.allChunks)
          /\ \E c \in SearchBody(search.allChunks, search.queryEmbedding,
                                  search.limit) :
                search.result = c.value

\* A search scoped to a filename was answered after two saveChunks calls had
\* committed chunks under it: its candidates come from both calls.
C21_Witness ==
    /\ Answered
    /\ Truthy(search.filename)
    /\ Cardinality({c.call : c \in Elems(search.allChunks)}) = 2
    /\ search.result # <<>>

====
